---- MODULE Spec2Model ----
(***************************************************************************)
(* TunnelDronePCL: the parallel clean-up pipeline                          *)
(* (src/point_cloud_cleanup.cpp), the sequential stitching program         *)
(* (src/source/main.cpp) and the transform-record aggregation it uses.     *)
(*                                                                         *)
(* Strings are sequences of one-character strings; positions in a string   *)
(* are 0-based as in std::string, and npos is the sentinel below.          *)
(* Coordinates are integers in tenths of a unit (0.1 == 1).                *)
(***************************************************************************)
EXTENDS Integers, Sequences, FiniteSets, TLC

\* ------------------------------------------------------------------ bounds

\* The largest number of frame files a directory of the model holds.
MaxFiles == 5

\* The number of points of one frame file.
PointsPerFrame == 5

\* The largest directory that is listed in more than one order, or that comes
\* with a pose prior file.
SmallDir == 3

\* averageTransformationData on its own: the largest number of raw rows, the
\* largest rows_per_frame and the largest value in a row.
MaxRows == 4
MaxValsPerCloud == 2
MaxRowValue == 1

\* main of the stitching program: the largest number of rows of the -t file.
MaxRawRows == 21

\* addCloud: the number of scans it is tried on, the number of voxels a scan
\* spans and the largest number of calls in a row.
NumScans == 2
ScanVoxels == 2
MaxAdds == 2

\* ------------------------------------------------------- program constants

\* main of the stitching program: averageTransformationData(.., 10).
RowsPerCloud == 10

\* The size of the worker pool (the literal 4 of the two dispatch loops).
PoolSize == 4

\* rectangularThreshold: the smallest region or band that is processed.
MinPoints == 5

\* rectangularThreshold: the number of longitudinal bands.
NumBands == 5

\* rectangularThreshold: the RANSAC distance threshold 0.1, in tenths.
thresh == 1

\* The depth filter's limits -5 and 0, in tenths.
ZMin == -50
ZMax == 0

\* The leaf size 100 of the downSample calls of StitchedCloud, in tenths.
leaf_size == 1000

\* ----------------------------------------------------------------- strings

npos == -1

RECURSIVE findFrom(_, _, _)
findFrom(s, c, k) ==
    IF k >= Len(s) THEN npos
    ELSE IF s[k + 1] = c THEN k
    ELSE findFrom(s, c, k + 1)

\* std::string::find(c): the position of the first c, or npos.
find(s, c) == findFrom(s, c, 0)

\* std::string::substr(pos, n), for 0 <= pos <= size (any other pos throws).
substr(s, pos, n) ==
    LET last == IF pos + n > Len(s) THEN Len(s) ELSE pos + n
    IN  SubSeq(s, pos + 1, last)

DigitChars == <<"0", "1", "2", "3", "4", "5", "6", "7", "8", "9">>

IsDigit(c) == \E d \in 1..10 : DigitChars[d] = c

DigitValue(c) == (CHOOSE d \in 1..10 : DigitChars[d] = c) - 1

\* std::stoi of a one-character string (it throws when that is no digit).
stoi1(s) == DigitValue(s[1])

RECURSIVE stoiFrom(_, _, _)
stoiFrom(s, k, acc) ==
    IF k > Len(s) \/ ~IsDigit(s[k]) THEN acc
    ELSE stoiFrom(s, k + 1, 10 * acc + DigitValue(s[k]))

\* std::stoi: the number written by the leading digits (none: it throws).
stoi(s) == stoiFrom(s, 1, 0)

RECURSIVE findLastFrom(_, _, _)
findLastFrom(s, c, k) ==
    IF k < 0 THEN npos
    ELSE IF s[k + 1] = c THEN k
    ELSE findLastFrom(s, c, k - 1)

\* std::string::find_last_of(c): the position of the last c, or npos.
find_last_of(s, c) == findLastFrom(s, c, Len(s) - 1)

\* The frame index compareFileNamesStruct reads from a name: the number between
\* the last D and the first dot. A count that is npos - start, or negative as a
\* size_t, takes the rest of the string.
FrameIndex(a) ==
    LET a_idx_start == find_last_of(a, "D") + 1
        a_idx_end == find(a, ".")
        count == IF a_idx_end - a_idx_start < 0 THEN Len(a)
                 ELSE a_idx_end - a_idx_start
    IN  stoi(substr(a, a_idx_start, count))

\* compareFileNamesStruct::operator()
compareFilenames(a, b) == FrameIndex(a) < FrameIndex(b)

RECURSIVE InsertSorted(_, _)
InsertSorted(x, sorted) ==
    IF sorted = <<>> THEN <<x>>
    ELSE IF compareFilenames(x, Head(sorted)) THEN <<x>> \o sorted
    ELSE <<Head(sorted)>> \o InsertSorted(x, Tail(sorted))

RECURSIVE SortFiles(_)
\* std::sort(files.begin(), files.end(), compareFilenames): the names in the
\* order of the comparison (names that compare equal may come in any order;
\* the frame names of the model have different indices).
SortFiles(files) ==
    IF files = <<>> THEN <<>>
    ELSE InsertSorted(Head(files), SortFiles(Tail(files)))

\* ------------------------------------------------------------- file names

dot == <<".">>
dotdot == <<".", ".">>
pcdExt == <<".", "p", "c", "d">>
filteredPcd == <<"f", "i", "l", "t", "e", "r", "e", "d">> \o pcdExt
notesTxt == <<"n", "o", "t", "e", "s", ".", "t", "x", "t">>
scanPrefix == <<"s", "c", "a", "n", "D">>

FrameName(digits) == scanPrefix \o digits \o pcdExt

\* The frame index written in the k-th frame name of the model: 10, 1, 2, ...
FrameDigits(k) == IF k = 1 THEN <<"1", "0">> ELSE <<DigitChars[k]>>

Frames(n) == [k \in 1..n |-> FrameName(FrameDigits(k))]

\* The same names in ascending order of the frame index: 1, 2, ..., 10.
FramesAscending(n) == [k \in 1..n |-> IF k = n THEN FrameName(FrameDigits(1))
                                       ELSE FrameName(FrameDigits(k + 1))]

\* The same names, the last one first.
FramesRotated(n) == [k \in 1..n |-> IF k = 1 THEN FrameName(FrameDigits(n))
                                     ELSE FrameName(FrameDigits(k - 1))]

\* A frame file of the directory that pcl::PCDReader cannot read.
corruptPcd == FrameName(<<"1", "1">>)

\* The directory listings of the model, in the order readdir returns them.
Listings ==
    {<<dot, dotdot>> \o Frames(n) : n \in 0..MaxFiles}
      \cup {FramesAscending(n) \o <<filteredPcd, notesTxt>> : n \in 1..SmallDir}
      \cup {<<dotdot>> \o FramesRotated(n) \o <<dot>> : n \in 1..SmallDir}
      \cup {<<dot, dotdot>> \o Frames(n) \o <<corruptPcd>> : n \in 1..(SmallDir - 1)}

\* The directory given on the command line.
Directory == <<"d", "/">>

\* filePredicate: TRUE for the entries that are removed from the list.
filePredicate(s) ==
    \/ s = dot
    \/ s = dotdot
    \/ s = filteredPcd
    \/ substr(s, find(s, "."), 4) # pcdExt

RECURSIVE removeIf(_)
\* files.erase(std::remove_if(.., filePredicate), ..): order is kept.
removeIf(files) ==
    IF files = <<>> THEN <<>>
    ELSE IF filePredicate(Head(files)) THEN removeIf(Tail(files))
    ELSE <<Head(files)>> \o removeIf(Tail(files))

\* ------------------------------------------------------------ point clouds

Point(px, py, pz) == [x |-> px, y |-> py, z |-> pz]

\* pcl::PassThrough on one field: the points with lo <= field <= hi, in the
\* cloud's order.
PassThrough(cloud, field, lo, hi) ==
    LET keep(p) == lo <= p[field] /\ p[field] <= hi
    IN  SelectSeq(cloud, keep)

\* The k-th frame file: PointsPerFrame points of one wall, 0.1 apart in z; the
\* frames show one of two wall positions in turn.
FrameCloud(k) == [n \in 1..PointsPerFrame |-> Point(-20, 10 + (k % 2), -n)]

\* Whether pcl::PCDReader::read can read the file.
Readable(path) == \E k \in 1..MaxFiles : path = Directory \o Frames(MaxFiles)[k]

\* The points pcl::PCDReader::read finds in a readable file.
FileCloud(path) ==
    FrameCloud(CHOOSE k \in 1..MaxFiles : path = Directory \o Frames(MaxFiles)[k])

\* ----------------------------------------------------------- wall segments

\* pcl::StatisticalOutlierRemoval (meanK 50, multiplier 1.0). The points of a
\* frame of the model are evenly spaced, so every point's mean distance to its
\* neighbours is within one deviation of the mean and none is removed.
StatisticalOutlierRemoval(cloud) == cloud

\* The number of points of the cloud within dist of the plane field = c.
Support(cloud, field, c, dist) ==
    Cardinality({n \in DOMAIN cloud :
                   cloud[n][field] - c <= dist /\ c - cloud[n][field] <= dist})

\* The planes of the model: a coordinate of a point of the cloud held fixed.
Planes(cloud) ==
    {<<field, cloud[n][field]>> : field \in {"x", "y", "z"}, n \in DOMAIN cloud}

\* pcl::RandomSampleConsensus on a plane model: the points within the distance
\* threshold of the best supported plane. The plane is fitted to the points it
\* is given, whichever region they come from. The walls of the model are
\* parallel to the axes.
RansacInliers(cloud, dist) ==
    LET supports == {Support(cloud, pl[1], pl[2], dist) : pl \in Planes(cloud)}
        most == CHOOSE m \in supports : \A n \in supports : n <= m
        best == CHOOSE pl \in Planes(cloud) :
                  Support(cloud, pl[1], pl[2], dist) = most
    IN  PassThrough(cloud, best[1], best[2] - dist, best[2] + dist)

\* One longitudinal band j (0, -1, .., -4) of a lateral region.
Band(sub, field, j) ==
    LET band == PassThrough(sub, "z", 10 * (j - 1), 10 * j)
    IN  IF Len(band) < MinPoints THEN <<>>
        ELSE RansacInliers(band, thresh)

RECURSIVE Bands(_, _, _)
Bands(sub, field, j) ==
    IF j <= -NumBands THEN <<>>
    ELSE Band(sub, field, j) \o Bands(sub, field, j - 1)

\* One lateral region i (0..3) of the cloud.
Region(src, thresh_range, i) ==
    LET field == IF i < 2 THEN "x" ELSE "y"
        lo == IF i < 2 THEN thresh_range[i + 1] ELSE thresh_range[i + 2]
        hi == IF i < 2 THEN thresh_range[i + 2] ELSE thresh_range[i + 3]
        sub == PassThrough(src, field, lo, hi)
    IN  IF Len(sub) < MinPoints THEN <<>>
        ELSE Bands(StatisticalOutlierRemoval(sub), field, 0)

rectangularThreshold(src, thresh_range) ==
    Region(src, thresh_range, 0) \o Region(src, thresh_range, 1)
      \o Region(src, thresh_range, 2) \o Region(src, thresh_range, 3)

\* The lateral bounds processPCD passes: {-5, 0, 5, -5, 0, 5}.
LateralBounds == <<-50, 0, 50, -50, 0, 50>>

\* --------------------------------------------------------- pose prior table

\* A row of the table: dx, dy, dz, rotx, roty, rotz. The rows of the model
\* translate along z only and do not rotate.
ZeroRow == <<0, 0, 0, 0, 0, 0>>

RawRow(dz) == <<0, 0, dz, 0, 0, 0>>

RECURSIVE Accumulate(_, _, _, _, _)
\* The first loop of the aggregation in main: row after row, a new record every
\* num_rows_per_file rows, the row added to record row / (size / num_rows_per_file).
Accumulate(raw, row, table, num_rows_per_file, num_cols) ==
    IF row >= Len(raw) THEN table
    ELSE LET grown == IF row % num_rows_per_file = 0
                      THEN Append(table, ZeroRow) ELSE table
             new_row == row \div (Len(raw) \div num_rows_per_file)
             added == [grown EXCEPT ![new_row + 1] =
                         [col \in 1..6 |-> IF col <= num_cols
                                           THEN @[col] + raw[row + 1][col]
                                           ELSE @[col]]]
         IN  Accumulate(raw, row + 1, added, num_rows_per_file, num_cols)

\* translation_and_rotation as main builds it from the raw rows. The raw tables
\* of the model have one row per frame file, which keeps every index in range
\* and every division exact.
AverageRows(raw, nfiles) ==
    LET num_rows_per_file == Len(raw) \div nfiles
        num_cols == Len(raw[1])
        sums == Accumulate(raw, 0, <<>>, num_rows_per_file, num_cols)
    IN  [r \in DOMAIN sums |->
           [col \in 1..6 |-> IF col <= num_cols
                             THEN sums[r][col] \div num_rows_per_file
                             ELSE sums[r][col]]]

\* pcl::transformPointCloud with the transform processPCD builds from a record:
\* the translation by the negated offsets (the rotations of the model are zero).
transformPointCloud(cloud, rec) ==
    [n \in DOMAIN cloud |->
       Point(cloud[n].x - rec[1], cloud[n].y - rec[2], cloud[n].z - rec[3])]

\* pcl::VoxelGrid with leaf size 0.1: one centroid for every occupied voxel.
\* Coordinates are whole tenths, so a voxel holds copies of one point only and
\* its centroid is that point.
VoxelGrid(cloud) == {cloud[n] : n \in DOMAIN cloud}

\* ------------------------------------------------ state: parallel pipeline

VARIABLES
    files_to_process,               \* main: the directory listing, then the frames
    translation_and_rotation_raw,   \* main: the rows of the -t file
    translation_and_rotation,       \* global: one record per frame
    transformations_file_supplied,  \* global
    mpc,                            \* main: where it is
    i,                              \* main: the number of frames dispatched
    process_threads,                \* main: the threads of the pool, oldest first
    t_it,                           \* main: the iterator of the final join loop
    wpc,                            \* per thread: where processPCD is
    path,                           \* per thread: the path it was given
    src_cloud,                      \* the cloud every thread is handed
    filtered_cloud,                 \* per thread: processPCD's local cloud
    stitched_cloud,                 \* the merged cloud
    stitch_mutex,                   \* global: the thread that holds it, or 0
    stitched_cloud_2,               \* main: the downsampled merged cloud
    written                         \* whether filtered.pcd has been written

VARIABLES
    main_files_to_process,  \* stitching main: the listing, then the frames
    supplied,               \* stitching main: argc > 4 and argv[3] is -t
    raw_in,                 \* the rows getTransformationData finds in the file
    cloud_transformations,  \* stitching main: the records (the vector that
                            \* averageTransformationData works on in place)
    vals_per_cloud,         \* averageTransformationData: its second argument
    a_i, a_j,               \* averageTransformationData: its loop counters
    spc,                    \* stitching main: where it is
    oob,                    \* whether an element outside a vector was accessed
    s_i,                    \* stitching main: the frame loop's counter
    visited                 \* the paths read so far, in order

VARIABLES
    new_cloud,        \* stitching main: the cloud every frame is read into
    stitchedCloud,    \* StitchedCloud::stitched_cloud of main's stitchedCloud
    transformation,   \* addCloud: its second argument
    apc,              \* where addCloud is
    in_cloud,         \* the cloud addCloud was called with
    in_model,         \* the merged cloud when addCloud was called
    n_added           \* the number of calls of addCloud that have returned

VARIABLES
    seg_src,      \* rectangularThreshold: the cloud it was called with
    seg_i,        \* rectangularThreshold: the lateral region, i of the outer loop
    seg_j,        \* rectangularThreshold: the band, j of the inner loop
    sub_cloud,    \* rectangularThreshold: the points of the region
    tmp,          \* rectangularThreshold: the points of the band
    ret_cloud,    \* rectangularThreshold: the result so far
    fitted,       \* the <<region, band>> pairs a plane was fitted to
    seg_pc        \* where rectangularThreshold is

addVars == <<new_cloud, stitchedCloud, transformation, apc, in_cloud, in_model,
             n_added>>

segVars == <<seg_src, seg_i, seg_j, sub_cloud, tmp, ret_cloud, fitted, seg_pc>>

\* addCloud is not running.
AddIdle ==
    /\ new_cloud = <<>>
    /\ stitchedCloud = <<>>
    /\ transformation = <<>>
    /\ apc = "idle"
    /\ in_cloud = <<>>
    /\ in_model = <<>>
    /\ n_added = 0

\* rectangularThreshold is not running on its own.
SegIdle ==
    /\ seg_src = <<>>
    /\ seg_i = 0
    /\ seg_j = 0
    /\ sub_cloud = <<>>
    /\ tmp = <<>>
    /\ ret_cloud = <<>>
    /\ fitted = <<>>
    /\ seg_pc = "idle"

seqVars == <<main_files_to_process, supplied, raw_in, cloud_transformations,
             vals_per_cloud, a_i, a_j, spc, oob, s_i, visited>>

parVars == <<files_to_process, translation_and_rotation_raw,
             translation_and_rotation, transformations_file_supplied, mpc, i,
             process_threads, t_it, wpc, path, src_cloud, filtered_cloud,
             stitched_cloud, stitch_mutex, stitched_cloud_2, written>>

\* What only main writes, and the other program.
schedVars == <<files_to_process, translation_and_rotation_raw,
               translation_and_rotation, transformations_file_supplied, mpc, i,
               process_threads, t_it, path, stitched_cloud_2, written, seqVars,
               addVars, segVars>>

Threads == 1..MaxFiles

\* The threads that have been started and not yet joined.
InFlight == {t \in Threads : wpc[t] \notin {"none", "joined"}}

\* The raw table of the model for n frames: one row per frame.
RawRows(n) == [r \in 1..n |-> RawRow(1)]

ParInit ==
    /\ files_to_process \in Listings
    /\ transformations_file_supplied \in
         IF Len(removeIf(files_to_process)) \in 1..SmallDir THEN BOOLEAN ELSE {FALSE}
    /\ translation_and_rotation_raw =
         IF transformations_file_supplied
         THEN RawRows(Len(removeIf(files_to_process))) ELSE <<>>
    /\ translation_and_rotation = <<>>
    /\ mpc = "filter"
    /\ i = 0
    /\ process_threads = <<>>
    /\ t_it = 1
    /\ wpc = [t \in Threads |-> "none"]
    /\ path = [t \in Threads |-> <<>>]
    /\ src_cloud = <<>>
    /\ filtered_cloud = [t \in Threads |-> <<>>]
    /\ stitched_cloud = <<>>
    /\ stitch_mutex = 0
    /\ stitched_cloud_2 = {}
    /\ written = FALSE

\* ------------------------------------------------------------ processPCD

\* processPCD taking the stitch lock on entry instead of before the append.
ReadHoldingLock(t) ==
    /\ wpc[t] = "read"
    /\ stitch_mutex = 0
    /\ stitch_mutex' = t
    /\ src_cloud' = IF Readable(path[t]) THEN FileCloud(path[t]) ELSE src_cloud
    /\ wpc' = [wpc EXCEPT ![t] = IF transformations_file_supplied
                                 THEN "transform" ELSE "filter"]
    /\ UNCHANGED <<filtered_cloud, stitched_cloud>>
    /\ UNCHANGED schedVars

\* reader.read(path, *src_cloud): a file that cannot be read leaves the cloud
\* as it was. Every call that works on the shared cloud is one step; the
\* threads' calls interleave freely.
Read(t) ==
    /\ wpc[t] = "read"
    /\ src_cloud' = IF Readable(path[t]) THEN FileCloud(path[t]) ELSE src_cloud
    /\ wpc' = [wpc EXCEPT ![t] = IF transformations_file_supplied
                                 THEN "transform" ELSE "filter"]
    /\ UNCHANGED <<filtered_cloud, stitched_cloud, stitch_mutex>>
    /\ UNCHANGED schedVars

\* The index processPCD reads from the path: the character before the first dot.
RecordIndex(p) == stoi1(substr(p, find(p, ".") - 1, 1))

\* The pose prior is applied to src_cloud in place.
Transform(t) ==
    /\ wpc[t] = "transform"
    /\ src_cloud' = transformPointCloud(
                      src_cloud, translation_and_rotation[RecordIndex(path[t]) + 1])
    /\ wpc' = [wpc EXCEPT ![t] = "filter"]
    /\ UNCHANGED <<filtered_cloud, stitched_cloud, stitch_mutex>>
    /\ UNCHANGED schedVars

\* The depth filter reads src_cloud and fills the thread's own filtered_cloud,
\* which rectangularThreshold then replaces by its wall segments.
Filter(t) ==
    /\ wpc[t] = "filter"
    /\ filtered_cloud' =
         [filtered_cloud EXCEPT
            ![t] = rectangularThreshold(PassThrough(src_cloud, "z", ZMin, ZMax),
                                        LateralBounds)]
    /\ wpc' = [wpc EXCEPT ![t] = "lock"]
    /\ UNCHANGED <<src_cloud, stitched_cloud, stitch_mutex>>
    /\ UNCHANGED schedVars

\* A lock guard on a mutex of the thread's own: it never waits.
LockOwnMutex(t) ==
    /\ wpc[t] = "lock"
    /\ stitch_mutex' = t
    /\ wpc' = [wpc EXCEPT ![t] = "append"]
    /\ UNCHANGED <<src_cloud, filtered_cloud, stitched_cloud>>
    /\ UNCHANGED schedVars

\* std::lock_guard<std::mutex> lock(stitch_mutex): blocks until the mutex is free.
Lock(t) ==
    /\ wpc[t] = "lock"
    /\ stitch_mutex = 0
    /\ stitch_mutex' = t
    /\ wpc' = [wpc EXCEPT ![t] = "append"]
    /\ UNCHANGED <<src_cloud, filtered_cloud, stitched_cloud>>
    /\ UNCHANGED schedVars

\* *stitched_cloud += *filtered_cloud, and the end of processPCD: the lock guard
\* releases the mutex it took and the local cloud is destroyed.
AppendCloud(t) ==
    /\ wpc[t] = "append"
    /\ stitched_cloud' = stitched_cloud \o filtered_cloud[t]
    /\ stitch_mutex' = IF stitch_mutex = t THEN 0 ELSE stitch_mutex
    /\ filtered_cloud' = [filtered_cloud EXCEPT ![t] = <<>>]
    /\ wpc' = [wpc EXCEPT ![t] = "done"]
    /\ UNCHANGED src_cloud
    /\ UNCHANGED schedVars

\* ------------------------------------------------- main (parallel pipeline)

\* What main leaves alone until the workers are joined, and the other program.
cloudVars == <<src_cloud, filtered_cloud, stitched_cloud, stitch_mutex, seqVars,
               addVars, segVars>>

\* Lines 127-134: the non-pcd entries are removed; no frame left ends the run.
RemoveNonPcd ==
    /\ mpc = "filter"
    /\ files_to_process' = removeIf(files_to_process)
    /\ mpc' = IF Len(files_to_process') = 0 THEN "failed"
              ELSE IF transformations_file_supplied THEN "average"
              ELSE "create"
    /\ UNCHANGED <<translation_and_rotation_raw, translation_and_rotation,
                   transformations_file_supplied, i, process_threads, t_it, wpc,
                   path, stitched_cloud_2, written>>
    /\ UNCHANGED cloudVars

\* Lines 138-163.
AverageTransforms ==
    /\ mpc = "average"
    /\ translation_and_rotation' =
         AverageRows(translation_and_rotation_raw, Len(files_to_process))
    /\ mpc' = "create"
    /\ UNCHANGED <<files_to_process, translation_and_rotation_raw,
                   transformations_file_supplied, i, process_threads, t_it, wpc,
                   path, stitched_cloud_2, written>>
    /\ UNCHANGED cloudVars

\* std::thread(processPCD, path, src_cloud, stitched_cloud) for frame i; ++i.
StartThread ==
    /\ process_threads' = Append(process_threads, i + 1)
    /\ path' = [path EXCEPT ![i + 1] = Directory \o files_to_process[i + 1]]
    /\ wpc' = [wpc EXCEPT ![i + 1] = "read"]
    /\ i' = i + 1

\* Where main goes when the first loop's condition is next evaluated.
AfterCreate(n) ==
    IF n < PoolSize /\ n < Len(files_to_process) THEN "create"
    ELSE IF n < Len(files_to_process) THEN "recycle"
    ELSE "joinall"

\* The first loop without its bound of 4 threads.
CreateThreadUnbounded ==
    /\ mpc = "create"
    /\ i < Len(files_to_process)
    /\ StartThread
    /\ mpc' = IF i' < Len(files_to_process) THEN "create" ELSE "joinall"
    /\ UNCHANGED <<files_to_process, translation_and_rotation_raw,
                   translation_and_rotation, transformations_file_supplied, t_it,
                   stitched_cloud_2, written>>
    /\ UNCHANGED cloudVars

\* Lines 170-177: one iteration of the first loop.
CreateThread ==
    /\ mpc = "create"
    /\ i < PoolSize /\ i < Len(files_to_process)
    /\ StartThread
    /\ mpc' = AfterCreate(i')
    /\ UNCHANGED <<files_to_process, translation_and_rotation_raw,
                   translation_and_rotation, transformations_file_supplied, t_it,
                   stitched_cloud_2, written>>
    /\ UNCHANGED cloudVars

\* Lines 180-181: process_threads[0].join() returns once that thread has
\* returned; the thread is then erased from the pool.
JoinOldest ==
    /\ mpc = "recycle"
    /\ wpc[Head(process_threads)] = "done"
    /\ wpc' = [wpc EXCEPT ![Head(process_threads)] = "joined"]
    /\ process_threads' = Tail(process_threads)
    /\ mpc' = "respawn"
    /\ UNCHANGED <<files_to_process, translation_and_rotation_raw,
                   translation_and_rotation, transformations_file_supplied, i,
                   t_it, path, stitched_cloud_2, written>>
    /\ UNCHANGED cloudVars

\* Lines 184-187: the thread for the next frame takes the freed place.
Respawn ==
    /\ mpc = "respawn"
    /\ StartThread
    /\ mpc' = IF i' < Len(files_to_process) THEN "recycle" ELSE "joinall"
    /\ UNCHANGED <<files_to_process, translation_and_rotation_raw,
                   translation_and_rotation, transformations_file_supplied, t_it,
                   stitched_cloud_2, written>>
    /\ UNCHANGED cloudVars

\* The final loop detaching the threads instead of joining them.
DetachNext ==
    /\ mpc = "joinall"
    /\ t_it <= Len(process_threads)
    /\ t_it' = t_it + 1
    /\ mpc' = IF t_it' > Len(process_threads) THEN "downsample" ELSE "joinall"
    /\ UNCHANGED <<files_to_process, translation_and_rotation_raw,
                   translation_and_rotation, transformations_file_supplied, i,
                   process_threads, wpc, path, stitched_cloud_2, written>>
    /\ UNCHANGED cloudVars

\* Lines 189-192: the threads still in the pool are joined, oldest first.
JoinNext ==
    /\ mpc = "joinall"
    /\ t_it <= Len(process_threads)
    /\ wpc[process_threads[t_it]] = "done"
    /\ wpc' = [wpc EXCEPT ![process_threads[t_it]] = "joined"]
    /\ t_it' = t_it + 1
    /\ mpc' = IF t_it' > Len(process_threads) THEN "downsample" ELSE "joinall"
    /\ UNCHANGED <<files_to_process, translation_and_rotation_raw,
                   translation_and_rotation, transformations_file_supplied, i,
                   process_threads, path, stitched_cloud_2, written>>
    /\ UNCHANGED cloudVars

\* Lines 195-202: the merged cloud is copied and the copy downsampled.
Downsample ==
    /\ mpc = "downsample"
    /\ stitched_cloud_2' = VoxelGrid(stitched_cloud)
    /\ mpc' = "write"
    /\ UNCHANGED <<files_to_process, translation_and_rotation_raw,
                   translation_and_rotation, transformations_file_supplied, i,
                   process_threads, t_it, wpc, path, written>>
    /\ UNCHANGED cloudVars

\* Lines 204-207.
WriteOutput ==
    /\ mpc = "write"
    /\ written' = TRUE
    /\ mpc' = "exit"
    /\ UNCHANGED <<files_to_process, translation_and_rotation_raw,
                   translation_and_rotation, transformations_file_supplied, i,
                   process_threads, t_it, wpc, path, stitched_cloud_2>>
    /\ UNCHANGED cloudVars

vars == <<parVars, seqVars, addVars, segVars>>

\* The stitching program is not running.
SeqIdle ==
    /\ main_files_to_process = <<>>
    /\ supplied = FALSE
    /\ raw_in = <<>>
    /\ cloud_transformations = <<>>
    /\ vals_per_cloud = 0
    /\ a_i = 0
    /\ a_j = 0
    /\ spc = "idle"
    /\ oob = FALSE
    /\ s_i = 0
    /\ visited = <<>>

Init == ParInit /\ SeqIdle /\ AddIdle /\ SegIdle

Next ==
    \/ RemoveNonPcd
    \/ AverageTransforms
    \/ CreateThread
    \/ JoinOldest
    \/ Respawn
    \/ JoinNext
    \/ Downsample
    \/ WriteOutput
    \/ \E t \in Threads : Read(t)
    \/ \E t \in Threads : Transform(t)
    \/ \E t \in Threads : Filter(t)
    \/ \E t \in Threads : Lock(t)
    \/ \E t \in Threads : AppendCloud(t)

Spec == Init /\ [][Next]_vars

\* Every step of main, and every step of thread t.
MainStep ==
    \/ RemoveNonPcd
    \/ AverageTransforms
    \/ CreateThread
    \/ JoinOldest
    \/ Respawn
    \/ JoinNext
    \/ Downsample
    \/ WriteOutput

ThreadStep(t) == Read(t) \/ Transform(t) \/ Filter(t) \/ Lock(t) \/ AppendCloud(t)

\* The smallest directory that fills the pool and recycles a thread, and a
\* small one that comes with a pose prior file.
FairInit ==
    /\ Init
    /\ \/ files_to_process = <<dot, dotdot>> \o Frames(PoolSize + 1)
       \/ files_to_process = <<dot, dotdot>> \o Frames(2)
            /\ transformations_file_supplied

\* The operating system schedules every thread that can run, and a mutex that
\* is free is given to a thread that waits for it.
FairSpec ==
    /\ FairInit
    /\ [][Next]_vars
    /\ WF_vars(MainStep)
    /\ \A t \in Threads : WF_vars(ThreadStep(t))

\* ------------------------------------------------------ transform records

\* A double is the exact fraction <<numerator, denominator>>.
Rat(n) == <<n, 1>>

RatAdd(a, b) == <<a[1] * b[2] + b[1] * a[2], a[2] * b[2]>>

RatDiv(a, k) == <<a[1], a[2] * k>>

RatEq(a, b) == a[1] * b[2] = b[1] * a[2]

Fields == {"dx", "dy", "dz", "rotx", "roty", "rotz", "confidence"}

\* A row of the transformations file, all its columns set from v.
Row(v) ==
    [dx |-> Rat(v), dy |-> Rat(v + 1), dz |-> Rat(2 * v), rotx |-> Rat(-v),
     roty |-> Rat(3), rotz |-> Rat(0), confidence |-> Rat(1)]

\* A default-constructed TransformData: zero pose, zero confidence.
ZeroTransformData == [f \in Fields |-> Rat(0)]

\* a += b and a /= k on every field, as averageTransformationData writes them.
AddFields(a, b) == [f \in Fields |-> RatAdd(a[f], b[f])]

DivFields(a, k) == [f \in Fields |-> RatDiv(a[f], k)]

Rows == {Row(v) : v \in 0..MaxRowValue}

\* What a read outside the vector may find.
Garbage == {Row(0), Row(MaxRowValue + 1)}

\* The variables averageTransformationData does not touch.
avgFrame == <<main_files_to_process, supplied, raw_in, vals_per_cloud, s_i,
              visited, parVars, addVars, segVars>>

\* Where the first loop goes after the division for group a_i: its condition
\* is i < size + vals_per_cloud; the second loop's is i < size.
AfterDivide ==
    IF a_i + vals_per_cloud < Len(cloud_transformations) + vals_per_cloud
    THEN /\ a_i' = a_i + vals_per_cloud
         /\ a_j' = 1
         /\ spc' = "avg_sum"
    ELSE /\ a_i' = 0
         /\ a_j' = 0
         /\ spc' = IF 0 < Len(cloud_transformations) THEN "avg_erase" ELSE "averaged"

\* transformations[i] += transformations[i+j], both elements in the vector.
AvgSum ==
    /\ spc = "avg_sum"
    /\ a_j < vals_per_cloud
    /\ a_i + a_j < Len(cloud_transformations)
    /\ cloud_transformations' =
         [cloud_transformations EXCEPT
            ![a_i + 1] = AddFields(@, cloud_transformations[a_i + a_j + 1])]
    /\ a_j' = a_j + 1
    /\ UNCHANGED <<a_i, spc, oob>>
    /\ UNCHANGED avgFrame

\* The same statement with transformations[i+j], or both elements, past the end
\* of the vector: the program stops, or it goes on with whatever it read.
AvgSumOutOfRange ==
    /\ spc = "avg_sum"
    /\ a_j < vals_per_cloud
    /\ a_i + a_j >= Len(cloud_transformations)
    /\ oob' = TRUE
    /\ \/ /\ spc' = "crashed"
          /\ UNCHANGED <<cloud_transformations, a_i, a_j>>
       \/ /\ a_i < Len(cloud_transformations)
          /\ \E g \in Garbage :
               cloud_transformations' =
                 [cloud_transformations EXCEPT ![a_i + 1] = AddFields(@, g)]
          /\ a_j' = a_j + 1
          /\ UNCHANGED <<a_i, spc>>
       \/ /\ a_i >= Len(cloud_transformations)
          /\ a_j' = a_j + 1
          /\ UNCHANGED <<cloud_transformations, a_i, spc>>
    /\ UNCHANGED avgFrame

\* transformations[i] /= vals_per_cloud for an element of the vector; i += r.
AvgDivide ==
    /\ spc = "avg_sum"
    /\ a_j >= vals_per_cloud
    /\ a_i < Len(cloud_transformations)
    /\ cloud_transformations' =
         [cloud_transformations EXCEPT ![a_i + 1] = DivFields(@, vals_per_cloud)]
    /\ AfterDivide
    /\ UNCHANGED oob
    /\ UNCHANGED avgFrame

\* The same statement for an element past the end of the vector.
AvgDivideOutOfRange ==
    /\ spc = "avg_sum"
    /\ a_j >= vals_per_cloud
    /\ a_i >= Len(cloud_transformations)
    /\ oob' = TRUE
    /\ \/ /\ spc' = "crashed"
          /\ UNCHANGED <<a_i, a_j>>
       \/ AfterDivide
    /\ UNCHANGED cloud_transformations
    /\ UNCHANGED avgFrame

\* The second loop's counters after one erase that left a vector of length n.
AfterErase(n) ==
    IF a_j + 1 < vals_per_cloud
    THEN /\ a_j' = a_j + 1
         /\ a_i' = a_i
         /\ spc' = "avg_erase"
    ELSE /\ a_j' = 0
         /\ a_i' = a_i + 1
         /\ spc' = IF a_i + 1 < n THEN "avg_erase" ELSE "averaged"

RemoveAt(seq, k) == SubSeq(seq, 1, k - 1) \o SubSeq(seq, k + 1, Len(seq))

\* transformations.erase(transformations.begin() + i + 1) of an element.
AvgErase ==
    /\ spc = "avg_erase"
    /\ a_i + 1 < Len(cloud_transformations)
    /\ cloud_transformations' = RemoveAt(cloud_transformations, a_i + 2)
    /\ AfterErase(Len(cloud_transformations'))
    /\ UNCHANGED oob
    /\ UNCHANGED avgFrame

\* The same statement with begin() + i + 1 at or past end(): the program stops,
\* or erase moves nothing and shortens the vector by its last element.
AvgEraseOutOfRange ==
    /\ spc = "avg_erase"
    /\ a_i + 1 >= Len(cloud_transformations)
    /\ oob' = TRUE
    /\ \/ /\ spc' = "crashed"
          /\ UNCHANGED <<cloud_transformations, a_i, a_j>>
       \/ /\ Len(cloud_transformations) > 0
          /\ cloud_transformations' =
               SubSeq(cloud_transformations, 1, Len(cloud_transformations) - 1)
          /\ AfterErase(Len(cloud_transformations'))
    /\ UNCHANGED avgFrame

\* The raw tables averageTransformationData is tried on.
RawTables == UNION {[1..n -> Rows] : n \in 0..MaxRows}

\* The parallel pipeline is not running.
ParIdle ==
    /\ files_to_process = <<>>
    /\ transformations_file_supplied = FALSE
    /\ translation_and_rotation_raw = <<>>
    /\ translation_and_rotation = <<>>
    /\ mpc = "idle"
    /\ i = 0
    /\ process_threads = <<>>
    /\ t_it = 1
    /\ wpc = [t \in Threads |-> "none"]
    /\ path = [t \in Threads |-> <<>>]
    /\ src_cloud = <<>>
    /\ filtered_cloud = [t \in Threads |-> <<>>]
    /\ stitched_cloud = <<>>
    /\ stitch_mutex = 0
    /\ stitched_cloud_2 = {}
    /\ written = FALSE

\* averageTransformationData(transformations, vals_per_cloud) called on a raw
\* table.
AvgInit ==
    /\ ParIdle
    /\ AddIdle
    /\ SegIdle
    /\ raw_in \in RawTables
    /\ cloud_transformations = raw_in
    /\ vals_per_cloud \in 1..MaxValsPerCloud
    /\ a_i = 0
    /\ a_j = 1
    /\ spc = "avg_sum"
    /\ oob = FALSE
    /\ main_files_to_process = <<>>
    /\ supplied = TRUE
    /\ s_i = 0
    /\ visited = <<>>

AvgNext ==
    \/ AvgSum
    \/ AvgSumOutOfRange
    \/ AvgDivide
    \/ AvgDivideOutOfRange
    \/ AvgErase
    \/ AvgEraseOutOfRange

SpecAvg == AvgInit /\ [][AvgNext]_vars

\* --------------------------------------------- main (stitching program)

\* The variables the steps of main outside the averaging do not touch.
mainFrame == <<supplied, raw_in, vals_per_cloud, parVars, addVars, segVars>>

\* Lines 69-74: the -t file is read (a row that getTransformationData rejects
\* ends the reading, the rows before it are kept) and
\* averageTransformationData(cloud_transformations, 10) is entered.
GetTransformationData ==
    /\ spc = "start"
    /\ supplied
    /\ cloud_transformations' = raw_in
    /\ a_i' = 0
    /\ a_j' = 1
    /\ spc' = "avg_sum"
    /\ UNCHANGED <<main_files_to_process, oob, s_i, visited>>
    /\ UNCHANGED mainFrame

\* Lines 76-84: without a -t file, one zero record for every entry of
\* files_to_process as it is then.
ZeroFill ==
    /\ spc = "start"
    /\ ~supplied
    /\ cloud_transformations' =
         [k \in 1..Len(main_files_to_process) |-> ZeroTransformData]
    /\ spc' = "averaged"
    /\ UNCHANGED <<main_files_to_process, a_i, a_j, oob, s_i, visited>>
    /\ UNCHANGED mainFrame

\* Lines 86-93.
MainRemoveNonPcd ==
    /\ spc = "averaged"
    /\ main_files_to_process' = removeIf(main_files_to_process)
    /\ spc' = IF Len(main_files_to_process') = 0 THEN "failed" ELSE "sort"
    /\ UNCHANGED <<cloud_transformations, a_i, a_j, oob, s_i, visited>>
    /\ UNCHANGED mainFrame

\* Lines 95-111.
SortFrames ==
    /\ spc = "sort"
    /\ main_files_to_process' = SortFiles(main_files_to_process)
    /\ spc' = "first"
    /\ UNCHANGED <<cloud_transformations, a_i, a_j, oob, s_i, visited>>
    /\ UNCHANGED mainFrame

\* Lines 114-118: the first frame is read and seeds the stitched cloud.
FirstCloud ==
    /\ spc = "first"
    /\ visited' = <<Directory \o main_files_to_process[1]>>
    /\ s_i' = 1
    /\ spc' = "loop"
    /\ UNCHANGED <<main_files_to_process, cloud_transformations, a_i, a_j, oob>>
    /\ UNCHANGED mainFrame

\* Lines 128-138: frame i is read and added with cloud_transformations[i] -
\* cloud_transformations[0], both records in the vector.
AddCloud ==
    /\ spc = "loop"
    /\ s_i < Len(main_files_to_process)
    /\ s_i < Len(cloud_transformations)
    /\ visited' = Append(visited, Directory \o main_files_to_process[s_i + 1])
    /\ s_i' = s_i + 1
    /\ UNCHANGED <<main_files_to_process, cloud_transformations, a_i, a_j, spc, oob>>
    /\ UNCHANGED mainFrame

\* The same iteration with cloud_transformations[i], or [0] too, past the end
\* of the vector: the program stops, or it goes on with whatever it read.
AddCloudOutOfRange ==
    /\ spc = "loop"
    /\ s_i < Len(main_files_to_process)
    /\ s_i >= Len(cloud_transformations)
    /\ oob' = TRUE
    /\ \/ /\ spc' = "crashed"
          /\ UNCHANGED <<visited, s_i>>
       \/ /\ visited' = Append(visited, Directory \o main_files_to_process[s_i + 1])
          /\ s_i' = s_i + 1
          /\ UNCHANGED spc
    /\ UNCHANGED <<main_files_to_process, cloud_transformations, a_i, a_j>>
    /\ UNCHANGED mainFrame

\* Line 145: the stitched cloud is saved.
SaveFile ==
    /\ spc = "loop"
    /\ s_i >= Len(main_files_to_process)
    /\ spc' = "exit"
    /\ UNCHANGED <<main_files_to_process, cloud_transformations, a_i, a_j, oob,
                   s_i, visited>>
    /\ UNCHANGED mainFrame

\* The rows of the -t files of the model.
RawFile(m) == [k \in 1..m |-> Row(k % (MaxRowValue + 1))]

SeqInit ==
    /\ ParIdle
    /\ AddIdle
    /\ SegIdle
    /\ main_files_to_process \in Listings
    /\ supplied \in BOOLEAN
    /\ raw_in \in IF supplied THEN {RawFile(m) : m \in 0..MaxRawRows} ELSE {<<>>}
    /\ cloud_transformations = <<>>
    /\ vals_per_cloud = RowsPerCloud
    /\ a_i = 0
    /\ a_j = 0
    /\ spc = "start"
    /\ oob = FALSE
    /\ s_i = 0
    /\ visited = <<>>

SeqNext ==
    \/ GetTransformationData
    \/ ZeroFill
    \/ AvgSum
    \/ AvgSumOutOfRange
    \/ AvgDivide
    \/ AvgDivideOutOfRange
    \/ AvgErase
    \/ AvgEraseOutOfRange
    \/ MainRemoveNonPcd
    \/ SortFrames
    \/ FirstCloud
    \/ AddCloud
    \/ AddCloudOutOfRange
    \/ SaveFile

SpecSeq == SeqInit /\ [][SeqNext]_vars

\* ----------------------------------------------------------- StitchedCloud

\* removeOutliers: pcl::StatisticalOutlierRemoval with the given neighbourhood
\* and deviation multiplier.
removeOutliers(cloud, num_neighbours, stddev) == StatisticalOutlierRemoval(cloud)

\* The voxel of a point in a grid of the given leaf size.
Voxel(p, leaf) == <<p.x \div leaf, p.y \div leaf, p.z \div leaf>>

\* The order pcl::VoxelGrid puts the voxels in: by z, then y, then x.
VoxelBefore(a, b) ==
    \/ a[3] < b[3]
    \/ a[3] = b[3] /\ a[2] < b[2]
    \/ a[3] = b[3] /\ a[2] = b[2] /\ a[1] < b[1]

RECURSIVE SumField(_, _)
SumField(cloud, field) ==
    IF cloud = <<>> THEN 0 ELSE Head(cloud)[field] + SumField(Tail(cloud), field)

\* The mean of a coordinate over a cloud with points; coordinates are kept in
\* whole tenths.
Mean(cloud, field) == SumField(cloud, field) \div Len(cloud)

\* The centroid of the points of the cloud that lie in voxel v.
Centroid(cloud, v, leaf) ==
    LET inside(p) == Voxel(p, leaf) = v
        pts == SelectSeq(cloud, inside)
    IN  Point(Mean(pts, "x"), Mean(pts, "y"), Mean(pts, "z"))

RECURSIVE Centroids(_, _, _)
Centroids(cloud, voxels, leaf) ==
    IF voxels = {} THEN <<>>
    ELSE LET v == CHOOSE a \in voxels : \A b \in voxels \ {a} : VoxelBefore(a, b)
         IN  <<Centroid(cloud, v, leaf)>> \o Centroids(cloud, voxels \ {v}, leaf)

\* downSample: pcl::VoxelGrid, one centroid for every occupied voxel.
downSample(cloud, leaf) ==
    Centroids(cloud, {Voxel(cloud[n], leaf) : n \in DOMAIN cloud}, leaf)

\* The whole tenths of a field of a transform record.
Whole(r) == r[1] \div r[2]

Shift(cloud, dx, dy, dz) ==
    [n \in DOMAIN cloud |-> Point(cloud[n].x + dx, cloud[n].y + dy, cloud[n].z + dz)]

\* transform: the translation by dx, dy, dz, then the rotations by the negated
\* angles (the records addCloud is tried on do not rotate).
transform(cloud, t) == Shift(cloud, Whole(t.dx), Whole(t.dy), Whole(t.dz))

filterRangeZ(cloud, minZ, maxZ) == PassThrough(cloud, "z", minZ, maxZ)

\* How far the cloud is from the target along one axis, centroid to centroid.
Offset(cloud, target, field) == Mean(target, field) - Mean(cloud, field)

\* The precision of the coarse alignment: one unit.
CoarseStep == 10

CoarseShift(d) == (d \div CoarseStep) * CoarseStep

\* registerWithSAC: sample consensus initial alignment of the cloud to the
\* target, written back to the cloud. It brings the cloud to within CoarseStep
\* of the target; without points in either cloud there is nothing to align.
registerWithSAC(cloud, target) ==
    IF cloud = <<>> \/ target = <<>> THEN cloud
    ELSE Shift(cloud, CoarseShift(Offset(cloud, target, "x")),
                      CoarseShift(Offset(cloud, target, "y")),
                      CoarseShift(Offset(cloud, target, "z")))

Near(d) == -CoarseStep <= d /\ d <= CoarseStep

\* registerWithICP: iterative closest point from where the cloud is, written
\* back to the cloud. It closes an offset that is small on every axis and
\* stalls on a larger one.
registerWithICP(cloud, target) ==
    IF cloud = <<>> \/ target = <<>> THEN cloud
    ELSE IF /\ Near(Offset(cloud, target, "x"))
            /\ Near(Offset(cloud, target, "y"))
            /\ Near(Offset(cloud, target, "z"))
         THEN Shift(cloud, Offset(cloud, target, "x"), Offset(cloud, target, "y"),
                    Offset(cloud, target, "z"))
         ELSE cloud

\* The k-th scan addCloud is tried on: two points in each of ScanVoxels voxels
\* along z, every scan a little further from the origin than the one before.
ScanCloud(k) ==
    [n \in 1..(2 * ScanVoxels) |->
       Point(k, 0, leaf_size * ((n - 1) \div 2) + 100 + 2 * ((n - 1) % 2) + 7 * k)]

\* A record that translates along z and does not rotate.
Translation(dz) == [ZeroTransformData EXCEPT !.dz = Rat(dz)]

\* The differences cloud_transformations[i] - cloud_transformations[0] that
\* addCloud is tried on: none, a small one, and one that moves the nearest
\* voxel of a scan behind the sensor.
Transformations == {Translation(0), Translation(25), Translation(-1100)}

\* The variables addCloud does not touch.
addFrame == <<parVars, seqVars, segVars>>

\* StitchedCloud::StitchedCloud: the first cloud seeds the merged cloud.
StitchedCloudCtor(point_cloud) ==
    filterRangeZ(downSample(removeOutliers(point_cloud, 100, 2), leaf_size), 0, 100000)

\* main, lines 130-136: the next file is read into new_cloud (scan 0: the file
\* cannot be read and new_cloud stays as it is) and addCloud is called.
ReadNewCloud ==
    /\ apc = "idle"
    /\ n_added < MaxAdds
    /\ \E k \in 0..NumScans, t \in Transformations :
         /\ new_cloud' = IF k = 0 THEN new_cloud ELSE ScanCloud(k)
         /\ transformation' = t
    /\ in_cloud' = new_cloud'
    /\ in_model' = stitchedCloud
    /\ apc' = "removeOutliers"
    /\ UNCHANGED <<stitchedCloud, n_added>>
    /\ UNCHANGED addFrame

\* Line 18.
AddRemoveOutliers ==
    /\ apc = "removeOutliers"
    /\ new_cloud' = removeOutliers(new_cloud, 100, 1)
    /\ apc' = "downSample"
    /\ UNCHANGED <<stitchedCloud, transformation, in_cloud, in_model, n_added>>
    /\ UNCHANGED addFrame

\* Line 20.
AddDownSample ==
    /\ apc = "downSample"
    /\ new_cloud' = downSample(new_cloud, leaf_size)
    /\ apc' = "transform"
    /\ UNCHANGED <<stitchedCloud, transformation, in_cloud, in_model, n_added>>
    /\ UNCHANGED addFrame

\* Line 22.
AddTransform ==
    /\ apc = "transform"
    /\ new_cloud' = transform(new_cloud, transformation)
    /\ apc' = "filterRangeZ"
    /\ UNCHANGED <<stitchedCloud, transformation, in_cloud, in_model, n_added>>
    /\ UNCHANGED addFrame

\* Line 24.
AddFilterRangeZ ==
    /\ apc = "filterRangeZ"
    /\ new_cloud' = filterRangeZ(new_cloud, 0, 100000)
    /\ apc' = "registerWithSAC"
    /\ UNCHANGED <<stitchedCloud, transformation, in_cloud, in_model, n_added>>
    /\ UNCHANGED addFrame

\* addCloud going on to the fine stage without the coarse one.
SkipRegisterWithSAC ==
    /\ apc = "registerWithSAC"
    /\ apc' = "registerWithICP"
    /\ UNCHANGED <<new_cloud, stitchedCloud, transformation, in_cloud, in_model,
                   n_added>>
    /\ UNCHANGED addFrame

\* Line 26.
AddRegisterWithSAC ==
    /\ apc = "registerWithSAC"
    /\ new_cloud' = registerWithSAC(new_cloud, stitchedCloud)
    /\ apc' = "registerWithICP"
    /\ UNCHANGED <<stitchedCloud, transformation, in_cloud, in_model, n_added>>
    /\ UNCHANGED addFrame

\* Line 27.
AddRegisterWithICP ==
    /\ apc = "registerWithICP"
    /\ new_cloud' = registerWithICP(new_cloud, stitchedCloud)
    /\ apc' = "append"
    /\ UNCHANGED <<stitchedCloud, transformation, in_cloud, in_model, n_added>>
    /\ UNCHANGED addFrame

\* Line 28: *stitched_cloud += *new_cloud.
AddAppend ==
    /\ apc = "append"
    /\ stitchedCloud' = stitchedCloud \o new_cloud
    /\ apc' = "downSample2"
    /\ UNCHANGED <<new_cloud, transformation, in_cloud, in_model, n_added>>
    /\ UNCHANGED addFrame

\* Line 31, and the return to main.
AddDownSampleStitched ==
    /\ apc = "downSample2"
    /\ stitchedCloud' = downSample(stitchedCloud, leaf_size)
    /\ apc' = "idle"
    /\ n_added' = n_added + 1
    /\ UNCHANGED <<new_cloud, transformation, in_cloud, in_model>>
    /\ UNCHANGED addFrame

\* main has read the first file (a scan, or nothing from a file that cannot be
\* read) and constructed stitchedCloud from it; new_cloud is allocated.
AddInit ==
    /\ ParIdle
    /\ SeqIdle
    /\ SegIdle
    /\ new_cloud = <<>>
    /\ stitchedCloud \in {StitchedCloudCtor(<<>>)}
                           \cup {StitchedCloudCtor(ScanCloud(k)) : k \in 1..NumScans}
    /\ transformation = Translation(0)
    /\ apc = "idle"
    /\ in_cloud = <<>>
    /\ in_model = <<>>
    /\ n_added = 0

AddNext ==
    \/ ReadNewCloud
    \/ AddRemoveOutliers
    \/ AddDownSample
    \/ AddTransform
    \/ AddFilterRangeZ
    \/ AddRegisterWithSAC
    \/ AddRegisterWithICP
    \/ AddAppend
    \/ AddDownSampleStitched

SpecAdd == AddInit /\ [][AddNext]_vars

\* ------------------------------------------- rectangularThreshold, by step

\* The points the pass filter of region r (i of the outer loop) lets through.
RegionPoints(src, thresh_range, r) ==
    IF r < 2
    THEN PassThrough(src, "x", thresh_range[r + 1], thresh_range[r + 2])
    ELSE PassThrough(src, "y", thresh_range[r + 2], thresh_range[r + 3])

\* long_pass with the limits j - 1 and j, in tenths.
BandPoints(sub, j) == PassThrough(sub, "z", 10 * (j - 1), 10 * j)

\* A wall x = -2 inside the box, in the first band.
WallInside == [n \in 1..PointsPerFrame |-> Point(-20, 10 + 10 * (n % 2), -n)]

\* A wall x = 2 beside the box in y, in the second band.
WallBeside == [n \in 1..PointsPerFrame |-> Point(20, 70 + 10 * (n % 2), -10 - n)]

\* A wall on the limit x = 0 that the two x regions share, beside the box in y.
WallOnLimit == [n \in 1..PointsPerFrame |-> Point(0, 90 + n, -25 - (n % 2))]

\* Too few points for a region.
FewPoints == [n \in 1..(MinPoints - 1) |-> Point(30, 70, -n)]

\* Enough points for a region, one in each band.
OnePerBand == [n \in 1..MinPoints |-> Point(70, -30 - (n % 2), 5 - 10 * n)]

Pick(b, cloud) == IF b THEN cloud ELSE <<>>

\* The clouds rectangularThreshold is tried on: any of the five groups of points
\* together.
SegClouds ==
    {Pick(a, WallInside) \o Pick(b, WallBeside) \o Pick(c, WallOnLimit)
       \o Pick(d, FewPoints) \o Pick(e, OnePerBand) :
         a \in BOOLEAN, b \in BOOLEAN, c \in BOOLEAN, d \in BOOLEAN, e \in BOOLEAN}

\* The variables rectangularThreshold does not touch.
segFrame == <<seg_src, parVars, seqVars, addVars>>

\* ++i of the outer loop.
NextRegion ==
    /\ seg_i' = seg_i + 1
    /\ seg_pc' = IF seg_i + 1 < 4 THEN "region" ELSE "done"

\* Lines 295-313: the region is cut out of the cloud; it has fewer than 5
\* points and the loop continues with the next region.
SkipRegion ==
    /\ seg_pc = "region"
    /\ sub_cloud' = RegionPoints(seg_src, LateralBounds, seg_i)
    /\ Len(sub_cloud') < MinPoints
    /\ NextRegion
    /\ UNCHANGED <<seg_j, tmp, ret_cloud, fitted>>
    /\ UNCHANGED segFrame

\* Lines 295-327: the region is cut out of the cloud, its outliers are removed
\* and the inner loop starts with j = 0.
EnterRegion ==
    /\ seg_pc = "region"
    /\ Len(RegionPoints(seg_src, LateralBounds, seg_i)) >= MinPoints
    /\ sub_cloud' = StatisticalOutlierRemoval(
                      RegionPoints(seg_src, LateralBounds, seg_i))
    /\ seg_j' = 0
    /\ seg_pc' = "band"
    /\ UNCHANGED <<seg_i, tmp, ret_cloud, fitted>>
    /\ UNCHANGED segFrame

\* --j of the inner loop; after the last band, ++i of the outer loop.
NextBand ==
    IF seg_j - 1 > -NumBands
    THEN /\ seg_j' = seg_j - 1
         /\ UNCHANGED <<seg_i, seg_pc>>
    ELSE /\ seg_j' = seg_j - 1
         /\ NextRegion

\* The inner loop fitting a plane to a band whatever its size.
FitSmallBand ==
    /\ seg_pc = "band"
    /\ tmp' = BandPoints(sub_cloud, seg_j)
    /\ Len(tmp') < MinPoints
    /\ ret_cloud' = ret_cloud \o tmp'
    /\ fitted' = Append(fitted, <<seg_i, seg_j>>)
    /\ NextBand
    /\ UNCHANGED sub_cloud
    /\ UNCHANGED segFrame

\* Lines 329-337: the band is cut out of the region; it has fewer than 5 points
\* and the loop continues with the next band.
SkipBand ==
    /\ seg_pc = "band"
    /\ tmp' = BandPoints(sub_cloud, seg_j)
    /\ Len(tmp') < MinPoints
    /\ NextBand
    /\ UNCHANGED <<sub_cloud, ret_cloud, fitted>>
    /\ UNCHANGED segFrame

\* Lines 329-348: the band is cut out of the region, a plane is fitted to it
\* and the inliers are added to the result.
FitBand ==
    /\ seg_pc = "band"
    /\ tmp' = BandPoints(sub_cloud, seg_j)
    /\ Len(tmp') >= MinPoints
    /\ ret_cloud' = ret_cloud \o RansacInliers(tmp', thresh)
    /\ fitted' = Append(fitted, <<seg_i, seg_j>>)
    /\ NextBand
    /\ UNCHANGED sub_cloud
    /\ UNCHANGED segFrame

\* rectangularThreshold(src_cloud, {-5, 0, 5, -5, 0, 5}) called on a cloud.
SegInit ==
    /\ ParIdle
    /\ SeqIdle
    /\ AddIdle
    /\ seg_src \in SegClouds
    /\ seg_i = 0
    /\ seg_j = 0
    /\ sub_cloud = <<>>
    /\ tmp = <<>>
    /\ ret_cloud = <<>>
    /\ fitted = <<>>
    /\ seg_pc = "region"

SegNext ==
    \/ SkipRegion
    \/ EnterRegion
    \/ SkipBand
    \/ FitBand

SpecSeg == SegInit /\ [][SegNext]_vars

\* ------------------------------------------------------------------ claims

\* C1: every append to the merged cloud is made by a thread that holds
\* stitch_mutex, so no two threads are appending at the same time.
C1_AppendUnderLock ==
    /\ \A t \in Threads : wpc[t] = "append" => stitch_mutex = t
    /\ Cardinality({t \in Threads : wpc[t] = "append"}) <= 1

\* C1 witness: one thread is about to append while another waits for the lock.
C1_Witness ==
    \E t, u \in Threads : wpc[t] = "append" /\ wpc[u] = "lock" /\ stitch_mutex = t

Count(cloud, p) == Cardinality({n \in DOMAIN cloud : cloud[n] = p})

\* The two clouds hold the same points, each as often.
SamePoints(a, b) ==
    \A p \in {a[n] : n \in DOMAIN a} \cup {b[n] : n \in DOMAIN b} :
       Count(a, p) = Count(b, p)

\* What processPCD merges for one path when it runs alone.
AloneResult(p) ==
    LET read == IF Readable(p) THEN FileCloud(p) ELSE <<>>
        moved == IF transformations_file_supplied
                 THEN transformPointCloud(
                        read, translation_and_rotation[RecordIndex(p) + 1])
                 ELSE read
    IN  rectangularThreshold(PassThrough(moved, "z", ZMin, ZMax), LateralBounds)

RECURSIVE OneAtATime(_, _)
\* The merged cloud of the frames from the k-th on, one worker at a time.
OneAtATime(files, k) ==
    IF k > Len(files) THEN <<>>
    ELSE AloneResult(Directory \o files[k]) \o OneAtATime(files, k + 1)

\* C2: the merged cloud that reaches the final downsample holds the points that
\* processing the frames one at a time merges.
C2_SameAsOneAtATime ==
    mpc = "downsample" => SamePoints(stitched_cloud, OneAtATime(files_to_process, 1))

\* Thread t has read its file into the cloud and has not yet range-filtered it.
Owns(t) == wpc[t] \in {"transform", "filter"}

\* C3: while a thread works on the cloud it read, no other thread reads or
\* writes that cloud.
C3_ExclusiveCloud ==
    [][\A t, u \in Threads :
         (t # u /\ Owns(t)) => ~(Read(u) \/ Transform(u) \/ Filter(u))]_vars

\* C4: at most 4 threads are in flight and never more than there are frames;
\* the threads in flight are the ones dispatched last, so that a place was
\* freed by joining the oldest; a thread is started for a full pool only after
\* that join.
C4_BoundedPool ==
    /\ Cardinality(InFlight) <= PoolSize
    /\ mpc # "filter" => i <= Len(files_to_process)
    /\ {t \in Threads : wpc[t] # "none"} = 1..i
    /\ InFlight = (i - Cardinality(InFlight) + 1)..i
    /\ mpc = "respawn" => Cardinality(InFlight) = PoolSize - 1

\* C4 witness: the pool was full, its oldest thread has been joined and the
\* next frame's thread is about to be started.
C4_Witness == mpc = "respawn" /\ i >= PoolSize /\ Cardinality(InFlight) = PoolSize - 1

\* The final downsample has started.
Finishing == mpc \in {"downsample", "write", "exit"}

\* C5: the final downsample and the write start only when every frame has been
\* dispatched and every thread joined; from then on the merged cloud does not
\* change; and once the frames are known the output is eventually written.
C5_JoinBeforeOutput ==
    /\ [](Finishing =>
            /\ i = Len(files_to_process)
            /\ \A t \in Threads : wpc[t] = IF t <= i THEN "joined" ELSE "none")
    /\ [][Finishing => stitched_cloud' = stitched_cloud]_vars
    /\ [](mpc = "create" => <>written)

\* C5 witness: the output is written after the pool was recycled.
C5_Witness == written /\ mpc = "exit" /\ i > PoolSize

\* C6: a thread holds stitch_mutex only when it is at its append; it does not
\* hold it while it reads, transforms, filters or waits.
C6_LockOnlyForAppend ==
    /\ stitch_mutex \in Threads \cup {0}
    /\ \A t \in Threads : stitch_mutex = t => wpc[t] = "append"
    /\ \A t \in Threads :
         wpc[t] \in {"read", "transform", "filter", "lock"} => stitch_mutex # t

\* C6 witness: a thread holds the lock while two others are preprocessing.
C6_Witness ==
    \E t, u, v \in Threads :
       /\ stitch_mutex = t
       /\ wpc[u] = "read"
       /\ wpc[v] = "filter"

\* C7: the frames are visited in ascending order of the frame index of their
\* names. The parallel pipeline: the frames dispatched so far.
C7_AscendingDispatch ==
    \A a, b \in 1..i :
       a < b => FrameIndex(files_to_process[a]) < FrameIndex(files_to_process[b])

\* The file name of a path of the model.
NameOf(p) == SubSeq(p, Len(Directory) + 1, Len(p))

\* The stitching program visits its frames in ascending order of the index.
AscendingVisits ==
    \A a, b \in DOMAIN visited :
       a < b => FrameIndex(NameOf(visited[a])) < FrameIndex(NameOf(visited[b]))

\* C8: when the frame loop starts there is one transform record per frame.
C8_RecordPerFrame ==
    spc = "first" => Len(cloud_transformations) = Len(main_files_to_process)

SameRecord(a, b) == \A f \in Fields : RatEq(a[f], b[f])

RECURSIVE SumRows(_, _, _)
\* The sum of the rows from the lo-th to the hi-th.
SumRows(rows, lo, hi) ==
    IF lo > hi THEN ZeroTransformData
    ELSE AddFields(rows[lo], SumRows(rows, lo + 1, hi))

\* The mean of the k-th run (k = 0, 1, ..) of r consecutive rows.
MeanOfRun(rows, k, r) == DivFields(SumRows(rows, k * r + 1, k * r + r), r)

\* C9: of n = m * r raw rows averageTransformationData makes m records, the
\* k-th the mean of the k-th run of r rows.
C9_RecordsAreMeans ==
    (spc = "averaged" /\ Len(raw_in) % vals_per_cloud = 0) =>
       /\ Len(cloud_transformations) = Len(raw_in) \div vals_per_cloud
       /\ \A k \in 1..Len(cloud_transformations) :
            SameRecord(cloud_transformations[k],
                       MeanOfRun(raw_in, k - 1, vals_per_cloud))

\* C10: averageTransformationData accesses no element outside the vector.
C10_NoAccessOutOfRange == ~oob

\* C11: a frame whose file cannot be read adds no points to the merged cloud.
\* The parallel pipeline: what a thread is about to append for such a frame is
\* empty.
C11_UnreadableFrameSkipped ==
    \A t \in Threads :
       (wpc[t] = "append" /\ ~Readable(path[t])) => filtered_cloud[t] = <<>>

\* The number of frames of the list whose frame index is smaller than the
\* name's: the place of the name in ascending order of the index, from 0.
Rank(files, name) ==
    Cardinality({k \in DOMAIN files : FrameIndex(files[k]) < FrameIndex(name)})

\* C12: the record applied to a frame is the record of the frame's place in
\* ascending order of the frame index: the frame with the k-th smallest index
\* is transformed with record k.
C12_RecordOfFrame ==
    \A t \in Threads :
       wpc[t] = "transform" =>
          RecordIndex(path[t]) = Rank(files_to_process, NameOf(path[t]))

\* What addCloud makes of the cloud it was called with before it registers it.
Preprocessed ==
    filterRangeZ(transform(downSample(removeOutliers(in_cloud, 100, 1), leaf_size),
                           transformation), 0, 100000)

\* The coarse alignment of that to the merged cloud addCloud was called on, and
\* the fine alignment that starts from the coarse one.
CoarseResult == registerWithSAC(Preprocessed, in_model)

FineResult == registerWithICP(CoarseResult, in_model)

\* C13: addCloud preprocesses the frame (outliers, downsample, pose prior, z
\* range), then aligns it coarsely, then finely from the coarse result, then
\* appends it, then downsamples the merged cloud; the merged cloud is as it was
\* at the call until both registration stages have finished.
C13_AddCloudOrder ==
    /\ apc \in {"removeOutliers", "downSample", "transform", "filterRangeZ",
                "registerWithSAC", "registerWithICP", "append"}
         => stitchedCloud = in_model
    /\ apc = "registerWithSAC" => new_cloud = Preprocessed
    /\ apc = "registerWithICP" => new_cloud = CoarseResult
    /\ apc = "append" => new_cloud = FineResult
    /\ apc = "downSample2" => stitchedCloud = in_model \o FineResult
    /\ (apc = "idle" /\ n_added > 0)
         => stitchedCloud = downSample(in_model \o FineResult, leaf_size)

\* C13 witness: a frame that the z range filter cut, that both registration
\* stages moved, has been appended to a merged cloud with points.
C13_Witness ==
    /\ apc = "downSample2"
    /\ in_model # <<>>
    /\ Len(Preprocessed) < Len(downSample(in_cloud, leaf_size))
    /\ CoarseResult # Preprocessed
    /\ FineResult # CoarseResult
    /\ stitchedCloud = in_model \o new_cloud

\* C14: the wall segments are a partition of the cloud: no point is in the
\* result more often than in the cloud, and the result is no larger than the
\* cloud.
C14_SegmentsPartition ==
    /\ \A n \in DOMAIN ret_cloud :
         Count(ret_cloud, ret_cloud[n]) <= Count(seg_src, ret_cloud[n])
    /\ Len(ret_cloud) <= Len(seg_src)

\* The result of rectangularThreshold by step is the result of the function.
SegSameAsFunction ==
    seg_pc = "done" => ret_cloud = rectangularThreshold(seg_src, LateralBounds)

\* Region r of the cloud has the points for a fit, and so has its band j.
LargeRegion(r) == Len(RegionPoints(seg_src, LateralBounds, r)) >= MinPoints

LargeBand(r, j) ==
    Len(BandPoints(StatisticalOutlierRemoval(
                     RegionPoints(seg_src, LateralBounds, r)), j)) >= MinPoints

\* The inliers of the fits run so far, in the order of the fits.
RECURSIVE InliersOf(_)
InliersOf(fits) ==
    IF fits = <<>> THEN <<>>
    ELSE LET f == fits[Len(fits)]
             band == BandPoints(StatisticalOutlierRemoval(
                                  RegionPoints(seg_src, LateralBounds, f[1])), f[2])
         IN  InliersOf(SubSeq(fits, 1, Len(fits) - 1)) \o RansacInliers(band, thresh)

\* C15: a region or a band with fewer than 5 points is skipped: no plane is
\* fitted to it and the step that skips it adds nothing to the result; the
\* result holds the inliers of the fits and nothing else; every region and band
\* with 5 points or more is fitted, whatever was skipped before it; a cloud
\* without points gives a result without points.
C15_SmallSegmentsSkipped ==
    /\ [](\A k \in DOMAIN fitted :
            LargeRegion(fitted[k][1]) /\ LargeBand(fitted[k][1], fitted[k][2]))
    /\ [][(SkipRegion \/ SkipBand) => (ret_cloud' = ret_cloud /\ fitted' = fitted)]_vars
    /\ [](ret_cloud = InliersOf(fitted))
    /\ [](seg_pc = "done" =>
            /\ seg_i = 4
            /\ \A r \in 0..3, j \in 0..(NumBands - 1) :
                 (LargeRegion(r) /\ LargeBand(r, -j)) =>
                    \E k \in DOMAIN fitted : fitted[k] = <<r, -j>>
            /\ seg_src = <<>> => ret_cloud = <<>>)

\* C15 witness: a plane was fitted to a band after a band of the same region
\* was skipped, and to a region after a region was skipped.
C15_Witness ==
    /\ seg_pc = "done"
    /\ \E k \in DOMAIN fitted :
         /\ fitted[k][2] < 0
         /\ ~LargeBand(fitted[k][1], 0)
    /\ \E k \in DOMAIN fitted :
         \E r \in 0..3 : r < fitted[k][1] /\ ~LargeRegion(r) /\ seg_src # <<>>

====
